---- MODULE Spec2Model ----
(***************************************************************************)
(* A model of the avkg knowledge graph (src/avkg/knowledge_graph.py), its  *)
(* directory loader, the anomaly scorer and the console menu                *)
(* (src/avkg/ayurveda.py, src/avkg/utils.py).                              *)
(*                                                                         *)
(* Fact defines neither __eq__ nor __hash__, so a Python set of Facts is a *)
(* set of objects: a Fact is modelled as a record carrying, besides its    *)
(* head, relation and tail, the identity `id` of the object.  Entity and   *)
(* Relation compare and hash by content, so they are modelled by their     *)
(* content string.                                                         *)
(***************************************************************************)
EXTENDS Integers, FiniteSets, Sequences, TLC

VARIABLES
  allocated,   \* the Fact objects constructed so far
  kg,          \* the KnowledgeGraph objects
  vector,      \* the embedding: the vector of each name
  call,        \* the operation called last, with its arguments
  ret,         \* what that operation returned
  raised,      \* the exception that operation raised, or None
  stack,       \* the frames of the running get_objects call, innermost last
  fs,          \* the directory tree load_data reads
  walk,        \* the frames of the running _load_data_recur, innermost last
  probs,       \* the probabilities the last get_anomalies got from softmax
  console      \* what DataCollector.select printed since it last read input

vars ==
  <<allocated, kg, vector, call, ret, raised, stack, fs, walk, probs, console>>

(* ---------------------------- bounds ----------------------------------- *)

\* Number of Fact objects constructed in a run.
MaxFacts == 2

\* Names of the entities and relations used by the graph scenarios.
EntityNames == {"A", "B"}

\* Names of the categories of the get_objects scenarios.
CategoryNames == {"A", "B", "C"}

\* Scores run from 0 to MaxScore, and a mapping has at most MaxItems items.
MaxScore == 2

MaxItems == 2

\* Thresholds are the multiples of 1 / ThresholdDen in [0, 1].
ThresholdDen == 32

\* The precision of the floating-point arithmetic, scaled down: the results
\* of math.exp are multiples of 1 / Scale.
Scale == 1000

\* A menu has at most MaxChoices items, a line typed at it at most
\* MaxInputLen characters.
MaxChoices == 2

MaxInputLen == 2

\* Depth at which the interpreter stops a recursion (sys.getrecursionlimit(),
\* 1000 by default), scaled down.
RecursionLimit == 4

SUBCATEGORY_RELATION == "is of"

RelationNames == {SUBCATEGORY_RELATION, "r"}

Names == EntityNames \cup RelationNames

\* The two KnowledgeGraph objects of the scenarios (self and other).
Graphs == {1, 2}

\* Python's None, for an absent filter.
None == "None"

(* ------------------- EmbeddedText / Entity / Relation ------------------ *)

\* The embedding of a text is the angle (in degrees) of its unit vector;
\* the angles an embedding model may give to the names.
Angles == {0, 17, 18}

\* get_similarity: 1 - arccos(cosine) / pi, in units of 1/180.
get_similarity(v, w) == 180 - (IF v >= w THEN v - w ELSE w - v)

\* EmbeddedText.SIMILARITY_THRESHOLD = 0.9, as the fraction 9 / 10.
SIMILARITY_THRESHOLD_NUM == 9

SIMILARITY_THRESHOLD_DEN == 10

\* EmbeddedText.is_like: similarity > SIMILARITY_THRESHOLD.
is_like(a, b) ==
  get_similarity(vector[a], vector[b]) * SIMILARITY_THRESHOLD_DEN
    > SIMILARITY_THRESHOLD_NUM * 180

(* -------------------------------- Fact --------------------------------- *)

\* Fact.__init__: a new object; its id tells it from the objects built
\* before it from the same head, relation and tail.
NewFact(objects, h, r, t) ==
  [head |-> h, relation |-> r, tail |-> t,
   id |-> Cardinality({f \in objects :
                         f.head = h /\ f.relation = r /\ f.tail = t}) + 1]

Fact(h, r, t) == NewFact(allocated, h, r, t)

Triple(f) == <<f.head, f.relation, f.tail>>

(* --------------------------- KnowledgeGraph ---------------------------- *)

\* KnowledgeGraph.__init__
EmptyGraph ==
  [entities |-> {}, relations |-> {}, facts |-> {},
   head_to_facts |-> [k \in {} |-> {}],
   relation_to_facts |-> [k \in {} |-> {}],
   tail_to_facts |-> [k \in {} |-> {}]]

\* defaultdict(set).__getitem__: the value read ...
DefaultGet(d, k) == IF k \in DOMAIN d THEN d[k] ELSE {}

\* ... and the dictionary afterwards: a missing key is inserted.
DefaultTouch(d, k) ==
  IF k \in DOMAIN d THEN d
  ELSE [x \in DOMAIN d \cup {k} |-> IF x = k THEN {} ELSE d[x]]

\* d[k].add(f) on a defaultdict(set).
DictSetAdd(d, k, f) ==
  [x \in DOMAIN d \cup {k} |->
     IF x = k THEN DefaultGet(d, k) \cup {f} ELSE d[x]]

\* A lookup by head that reads the tail index.
get_facts_by_head_TailIndex(g, head) ==
  [ret |-> DefaultGet(g.tail_to_facts, head),
   kg |-> [g EXCEPT !.tail_to_facts = DefaultTouch(@, head)]]

get_facts_by_head(g, head) ==
  [ret |-> DefaultGet(g.head_to_facts, head),
   kg |-> [g EXCEPT !.head_to_facts = DefaultTouch(@, head)]]

get_facts_by_relation(g, relation) ==
  [ret |-> DefaultGet(g.relation_to_facts, relation),
   kg |-> [g EXCEPT !.relation_to_facts = DefaultTouch(@, relation)]]

get_facts_by_tail(g, tail) ==
  [ret |-> DefaultGet(g.tail_to_facts, tail),
   kg |-> [g EXCEPT !.tail_to_facts = DefaultTouch(@, tail)]]

\* An add that forgets the tail index.
add_NoTailIndex(g, fact) ==
  [entities |-> g.entities \cup {fact.head, fact.tail},
   relations |-> g.relations \cup {fact.relation},
   facts |-> g.facts \cup {fact},
   head_to_facts |-> DictSetAdd(g.head_to_facts, fact.head, fact),
   relation_to_facts |->
     DictSetAdd(g.relation_to_facts, fact.relation, fact),
   tail_to_facts |-> g.tail_to_facts]

\* An add that leaves the tail out of the entities.
add_NoTailEntity(g, fact) ==
  [entities |-> g.entities \cup {fact.head},
   relations |-> g.relations \cup {fact.relation},
   facts |-> g.facts \cup {fact},
   head_to_facts |-> DictSetAdd(g.head_to_facts, fact.head, fact),
   relation_to_facts |->
     DictSetAdd(g.relation_to_facts, fact.relation, fact),
   tail_to_facts |-> DictSetAdd(g.tail_to_facts, fact.tail, fact)]

\* KnowledgeGraph.add
add(g, fact) ==
  [entities |-> g.entities \cup {fact.head, fact.tail},
   relations |-> g.relations \cup {fact.relation},
   facts |-> g.facts \cup {fact},
   head_to_facts |-> DictSetAdd(g.head_to_facts, fact.head, fact),
   relation_to_facts |->
     DictSetAdd(g.relation_to_facts, fact.relation, fact),
   tail_to_facts |-> DictSetAdd(g.tail_to_facts, fact.tail, fact)]

\* The loop of KnowledgeGraph.__iadd__: add every fact of `todo`.
RECURSIVE AddAll(_, _)
AddAll(g, todo) ==
  IF todo = {} THEN g
  ELSE LET fact == CHOOSE f \in todo : TRUE
       IN AddAll(add(g, fact), todo \ {fact})

\* A merge whose loop stops after the first fact.
iadd_FirstOnly(self, other) ==
  IF other.facts = {} THEN self
  ELSE add(self, CHOOSE f \in other.facts : TRUE)

\* KnowledgeGraph.__iadd__
iadd(self, other) == AddAll(self, other.facts)

\* KnowledgeGraph.exact_search
exact_search(g, head, relation, tail) ==
  LET s0 == [ret |-> {}, kg |-> g]
      s1 == IF head # None THEN get_facts_by_head(s0.kg, head) ELSE s0
      byRel == get_facts_by_relation(s1.kg, relation)
      s2 == IF relation # None /\ s1.ret = {} THEN byRel
            ELSE IF relation # None /\ s1.ret # {}
                 THEN [ret |-> s1.ret \cap byRel.ret, kg |-> byRel.kg]
                 ELSE s1
      byTail == get_facts_by_tail(s2.kg, tail)
      s3 == IF tail # None /\ s2.ret = {} THEN byTail
            ELSE IF tail # None /\ s2.ret # {}
                 THEN [ret |-> s2.ret \cap byTail.ret, kg |-> byTail.kg]
                 ELSE s2
  IN s3

\* The loop of KnowledgeGraph.fuzzy_search over the facts not yet visited.
RECURSIVE FuzzyLoop(_, _, _, _, _)
FuzzyLoop(todo, results, head, relation, tail) ==
  IF todo = {} THEN results
  ELSE LET fact == CHOOSE f \in todo : TRUE
           rest == todo \ {fact}
       IN IF head # None /\ ~is_like(fact.head, head)
          THEN FuzzyLoop(rest, results, head, relation, tail)
          ELSE IF relation # None /\ ~is_like(fact.relation, relation)
          THEN FuzzyLoop(rest, results, head, relation, tail)
          ELSE IF tail # None /\ ~is_like(fact.tail, tail)
          THEN FuzzyLoop(rest, results, head, relation, tail)
          ELSE FuzzyLoop(rest, results \cup {fact}, head, relation, tail)

\* A fuzzy search that forgets the tail filter.
fuzzy_search_NoTail(g, head, relation, tail) ==
  FuzzyLoop(g.facts, {}, head, relation, None)

\* KnowledgeGraph.fuzzy_search
fuzzy_search(g, head, relation, tail) ==
  FuzzyLoop(g.facts, {}, head, relation, tail)

(* ------------------------------ actions -------------------------------- *)

EntityFilters == EntityNames \cup {None}

RelationFilters == RelationNames \cup {None}

\* The program is single-threaded: no operation starts while get_objects or
\* load_data runs.
Idle == stack = << >> /\ walk = << >>

\* g.add(Fact(h, r, t)): a newly constructed fact is added.
Add(g, h, r, t) ==
  /\ Idle
  /\ Cardinality(allocated) < MaxFacts
  /\ LET fact == Fact(h, r, t)
     IN /\ allocated' = allocated \cup {fact}
        /\ kg' = [kg EXCEPT ![g] = add(@, fact)]
        /\ call' = [op |-> "add", g |-> g, fact |-> fact, fresh |-> TRUE]
  /\ ret' = {}
  /\ raised' = None
  /\ UNCHANGED <<vector, stack, fs, walk, probs, console>>

\* g.add(fact) with a fact object that exists already.
AddAgain(g, fact) ==
  /\ Idle
  /\ fact \in allocated
  /\ kg' = [kg EXCEPT ![g] = add(@, fact)]
  /\ call' = [op |-> "add", g |-> g, fact |-> fact, fresh |-> FALSE]
  /\ ret' = {}
  /\ raised' = None
  /\ UNCHANGED <<allocated, vector, stack, fs, walk, probs, console>>

\* g += o
Merge(g, o) ==
  /\ Idle
  /\ kg' = [kg EXCEPT ![g] = iadd(@, kg[o])]
  /\ call' = [op |-> "iadd", g |-> g, other |-> o]
  /\ ret' = {}
  /\ raised' = None
  /\ UNCHANGED <<allocated, vector, stack, fs, walk, probs, console>>

GetFactsByHead(g, k) ==
  /\ Idle
  /\ LET res == get_facts_by_head(kg[g], k)
     IN /\ kg' = [kg EXCEPT ![g] = res.kg]
        /\ ret' = res.ret
  /\ call' = [op |-> "get_facts_by_head", g |-> g, key |-> k]
  /\ raised' = None
  /\ UNCHANGED <<allocated, vector, stack, fs, walk, probs, console>>

GetFactsByRelation(g, k) ==
  /\ Idle
  /\ LET res == get_facts_by_relation(kg[g], k)
     IN /\ kg' = [kg EXCEPT ![g] = res.kg]
        /\ ret' = res.ret
  /\ call' = [op |-> "get_facts_by_relation", g |-> g, key |-> k]
  /\ raised' = None
  /\ UNCHANGED <<allocated, vector, stack, fs, walk, probs, console>>

GetFactsByTail(g, k) ==
  /\ Idle
  /\ LET res == get_facts_by_tail(kg[g], k)
     IN /\ kg' = [kg EXCEPT ![g] = res.kg]
        /\ ret' = res.ret
  /\ call' = [op |-> "get_facts_by_tail", g |-> g, key |-> k]
  /\ raised' = None
  /\ UNCHANGED <<allocated, vector, stack, fs, walk, probs, console>>

ExactSearch(g, h, r, t) ==
  /\ Idle
  /\ LET res == exact_search(kg[g], h, r, t)
     IN /\ kg' = [kg EXCEPT ![g] = res.kg]
        /\ ret' = res.ret
  /\ call' = [op |-> "exact_search", g |-> g,
              head |-> h, relation |-> r, tail |-> t]
  /\ raised' = None
  /\ UNCHANGED <<allocated, vector, stack, fs, walk, probs, console>>

FuzzySearch(g, h, r, t) ==
  /\ Idle
  /\ ret' = fuzzy_search(kg[g], h, r, t)
  /\ call' = [op |-> "fuzzy_search", g |-> g,
              head |-> h, relation |-> r, tail |-> t]
  /\ raised' = None
  /\ UNCHANGED <<allocated, kg, vector, stack, fs, walk, probs, console>>

(* ----------------------------- get_objects ----------------------------- *)

\* The frame of one activation of get_objects: its category, the facts its
\* for loop has still to visit, and its local `objects`.
Frame(category, todo) ==
  [category |-> category, todo |-> todo, objects |-> {}]

Top == stack[Len(stack)]

\* A return that always counts the category itself among its objects.
ObjectsResult_WithSelf(frame) == frame.objects \cup {frame.category}

\* What an activation returns once its loop is over.
ObjectsResult(frame) ==
  IF frame.objects = {} THEN {frame.category} ELSE frame.objects

\* get_objects is called from outside: the first activation reads the tail
\* index of its category.
GetObjectsCall(g, category) ==
  /\ Idle
  /\ LET res == get_facts_by_tail(kg[g], category)
     IN /\ kg' = [kg EXCEPT ![g] = res.kg]
        /\ stack' = <<Frame(category, res.ret)>>
  /\ call' = [op |-> "get_objects", g |-> g, category |-> category]
  /\ ret' = {}
  /\ raised' = None
  /\ UNCHANGED <<allocated, vector, fs, walk, probs, console>>

\* The loop visits a subcategory fact: get_objects(fact.head) is called, and
\* the interpreter raises RecursionError when the stack is full.
GetObjectsRecur ==
  /\ stack # << >>
  /\ \E fact \in Top.todo :
       /\ fact.relation = SUBCATEGORY_RELATION
       /\ IF Len(stack) >= RecursionLimit
          THEN /\ stack' = << >>
               /\ raised' = "RecursionError"
               /\ UNCHANGED kg
          ELSE LET res == get_facts_by_tail(kg[call.g], fact.head)
               IN /\ kg' = [kg EXCEPT ![call.g] = res.kg]
                  /\ stack' =
                       Append([stack EXCEPT ![Len(stack)].todo = @ \ {fact}],
                              Frame(fact.head, res.ret))
                  /\ UNCHANGED raised
  /\ UNCHANGED <<allocated, vector, call, ret, fs, walk, probs, console>>

\* The loop visits a fact of another relation: nothing happens.
GetObjectsSkip ==
  /\ stack # << >>
  /\ \E fact \in Top.todo :
       /\ fact.relation # SUBCATEGORY_RELATION
       /\ stack' = [stack EXCEPT ![Len(stack)].todo = @ \ {fact}]
  /\ UNCHANGED <<allocated, kg, vector, call, ret, raised, fs,
                 walk, probs, console>>

\* The loop is over: the activation returns {category} when it collected
\* nothing, its objects otherwise; the caller adds them to its own.
GetObjectsReturn ==
  /\ stack # << >>
  /\ Top.todo = {}
  /\ LET result == ObjectsResult(Top)
         n == Len(stack)
     IN IF n = 1
        THEN /\ stack' = << >>
             /\ ret' = result
        ELSE /\ stack' = [SubSeq(stack, 1, n - 1) EXCEPT
                            ![n - 1].objects = @ \cup result]
             /\ UNCHANGED ret
  /\ UNCHANGED <<allocated, kg, vector, call, raised, fs,
                 walk, probs, console>>

(* ------------------------------- loader -------------------------------- *)

\* A path is the sequence of its components; the root directory is
\* <<"root">>.  fs.dirs holds the paths of the directories, fs.files maps the
\* path of each file (its name without the extension last) to its extension
\* and its parsed JSON content: head -> relation -> tails, where tails is a
\* string or a list of strings.
RootPath == <<"root">>

Str(t) == [kind |-> "str", val |-> t]

List(ts) == [kind |-> "list", val |-> ts]

\* os.listdir
listdir(path) ==
  {q[Len(q)] : q \in {x \in fs.dirs \cup DOMAIN fs.files :
                        Len(x) = Len(path) + 1
                        /\ SubSeq(x, 1, Len(path)) = path}}

\* os.path.isdir
isdir(path) == path \in fs.dirs

\* `[tails] if isinstance(tails, str) else tails`, keeping the first tail only.
TailsOf_FirstOnly(tails) ==
  IF tails.kind = "str" THEN <<tails.val>>
  ELSE IF tails.val = << >> THEN << >> ELSE <<tails.val[1]>>

\* `[tails] if isinstance(tails, str) else tails`
TailsOf(tails) == IF tails.kind = "str" THEN <<tails.val>> ELSE tails.val

\* The state of a loading step: the graph and the Fact objects built so far.
\* kg.add(Fact(h, r, t)) on such a state:
AddNew(st, h, r, t) ==
  LET fact == NewFact(st.allocated, h, r, t)
  IN [kg |-> add(st.kg, fact), allocated |-> st.allocated \cup {fact}]

\* `for tail in tails: kg.add(Fact(head, relation, tail))`
RECURSIVE AddTails(_, _, _, _)
AddTails(st, head, relation, tails) ==
  IF tails = << >> THEN st
  ELSE AddTails(AddNew(st, head, relation, Head(tails)),
                head, relation, Tail(tails))

\* `for relation, tails in relations.items()` over the relations left.
RECURSIVE AddRelations(_, _, _, _)
AddRelations(st, head, relations, todo) ==
  IF todo = {} THEN st
  ELSE LET relation == CHOOSE r \in todo : TRUE
       IN AddRelations(
            AddTails(st, head, relation, TailsOf(relations[relation])),
            head, relations, todo \ {relation})

\* `for head, relations in heads.items()` over the heads left.
RECURSIVE AddHeads(_, _, _, _)
AddHeads(st, heads, category, todo) ==
  IF todo = {} THEN st
  ELSE LET head == CHOOSE h \in todo : TRUE
           st1 == AddNew(st, head, SUBCATEGORY_RELATION, category)
       IN AddHeads(
            AddRelations(st1, head, heads[head], DOMAIN heads[head]),
            heads, category, todo \ {head})

\* update_knowledge_graph, on the parsed content of the file.
update_knowledge_graph(st, heads, category) ==
  AddHeads(st, heads, category, DOMAIN heads)

\* A root that is given its directory name as category, like the others.
CategoryOf_RootNamed(path, isRoot) == path[Len(path)]

\* The category of an activation of _load_data_recur: None for the first
\* one (kg is None), the last component of the path otherwise.
CategoryOf(path, isRoot) == IF isRoot THEN None ELSE path[Len(path)]

WalkFrame(path, isRoot) ==
  [path |-> path, category |-> CategoryOf(path, isRoot),
   todo |-> listdir(path)]

WalkTop == walk[Len(walk)]

\* KnowledgeGraph.load_data: the first activation makes a new graph.
LoadData ==
  /\ Idle
  /\ call.op = "init"
  /\ kg' = [kg EXCEPT ![1] = EmptyGraph]
  /\ walk' = <<WalkFrame(RootPath, TRUE)>>
  /\ call' = [op |-> "load_data", g |-> 1]
  /\ ret' = {}
  /\ raised' = None
  /\ UNCHANGED <<allocated, vector, stack, fs, probs, console>>

\* The loop visits a directory: _load_data_recur is called on it.
LoadDir ==
  /\ walk # << >>
  /\ \E filename \in WalkTop.todo :
       LET file_path == Append(WalkTop.path, filename)
       IN /\ isdir(file_path)
          /\ walk' = Append([walk EXCEPT ![Len(walk)].todo = @ \ {filename}],
                            WalkFrame(file_path, FALSE))
  /\ UNCHANGED <<allocated, kg, vector, call, ret, raised, stack,
                 fs, probs, console>>

\* The loop visits a file: its extension is checked, the fact that ties it
\* to the category is added, and its content is loaded.
LoadFile ==
  /\ walk # << >>
  /\ \E filename \in WalkTop.todo :
       LET file_path == Append(WalkTop.path, filename)
           subcategory == filename
           ext == fs.files[file_path].ext
           st0 == [kg |-> kg[call.g], allocated |-> allocated]
           st1 == IF WalkTop.category # None
                  THEN AddNew(st0, subcategory, SUBCATEGORY_RELATION,
                              WalkTop.category)
                  ELSE st0
           st2 == update_knowledge_graph(st1, fs.files[file_path].heads,
                                         subcategory)
       IN /\ ~isdir(file_path)
          /\ IF ext # ".json"
             THEN /\ raised' = "AssertionError"
                  /\ walk' = << >>
                  /\ UNCHANGED <<allocated, kg>>
             ELSE /\ kg' = [kg EXCEPT ![call.g] = st2.kg]
                  /\ allocated' = st2.allocated
                  /\ walk' = [walk EXCEPT ![Len(walk)].todo = @ \ {filename}]
                  /\ UNCHANGED raised
  /\ UNCHANGED <<vector, call, ret, stack, fs, probs, console>>

\* The loop is over: the activation returns the graph to its caller.
LoadReturn ==
  /\ walk # << >>
  /\ WalkTop.todo = {}
  /\ walk' = SubSeq(walk, 1, Len(walk) - 1)
  /\ UNCHANGED <<allocated, kg, vector, call, ret, raised, stack,
                 fs, probs, console>>

(* ---------------------------- get_anomalies ---------------------------- *)

\* Numbers are kept exact where the code's are floating-point numbers close
\* to them.  A logarithm is kept as the number of tenths it is the logarithm
\* of: math.log(score + 1e-1) as 10 * score + 1, so that the difference of
\* two logarithms stands for the quotient of the two numbers.  math.exp
\* rounds its result to a multiple of 1 / Scale, up or down as the library
\* does for that argument (`up` holds the arguments it rounds up).
LogScore(score) == 10 * score + 1

\* max(xs)
Max(xs) == CHOOSE m \in {xs[i] : i \in DOMAIN xs} :
             \A i \in DOMAIN xs : xs[i] <= m

\* math.exp(x - x_max), in units of 1 / Scale.
Exp(x, x_max, up) ==
  LET q == (x * Scale) \div x_max
  IN IF (x * Scale) % x_max = 0 THEN q
     ELSE IF x \in up THEN q + 1 ELSE q

\* sum(xs)
RECURSIVE Sum(_)
Sum(xs) == IF xs = << >> THEN 0 ELSE Head(xs) + Sum(Tail(xs))

\* utils.softmax: each probability as the fraction exp_x / denom.
softmax(xs, up) ==
  LET x_max == Max(xs)
      exp_xs == [i \in DOMAIN xs |-> Exp(xs[i], x_max, up)]
      denom == Sum(exp_xs)
  IN [i \in DOMAIN xs |-> [num |-> exp_xs[i], den |-> denom]]

\* `prob >= prob_threshold` in place of `prob > prob_threshold`.
IsAnomaly_OrEqual(prob, threshold) ==
  prob.num * threshold.den >= threshold.num * prob.den

\* `prob > prob_threshold`
IsAnomaly(prob, threshold) ==
  prob.num * threshold.den > threshold.num * prob.den

\* `assert score >= 0` on the first item only.
AssertionFails_FirstOnly(item_scores) ==
  item_scores # << >> /\ ~(item_scores[1] >= 0)

\* The loop over the items meets a score that fails `assert score >= 0`
\* (nothing before the assertion fails on the scores that precede it).
AssertionFails(item_scores) ==
  \E i \in DOMAIN item_scores : ~(item_scores[i] >= 0)

\* get_anomalies(item_scores, prob_threshold): the items are the positions
\* of the mapping, in its order.
GetAnomalies(item_scores, prob_threshold, up) ==
  /\ Idle
  /\ call' = [op |-> "get_anomalies", item_scores |-> item_scores,
              prob_threshold |-> prob_threshold]
  /\ IF AssertionFails(item_scores)
     THEN /\ raised' = "AssertionError"
          /\ ret' = {}
          /\ probs' = << >>
     ELSE IF item_scores = << >>
     THEN /\ raised' = "ValueError"
          /\ ret' = {}
          /\ probs' = << >>
     ELSE LET log_scores ==
                [i \in DOMAIN item_scores |-> LogScore(item_scores[i])]
              ps == softmax(log_scores, up)
          IN /\ raised' = None
             /\ probs' = ps
             /\ ret' = {i \in DOMAIN item_scores :
                          IsAnomaly(ps[i], prob_threshold)}
  /\ UNCHANGED <<allocated, kg, vector, stack, fs, walk, console>>

(* ------------------------- DataCollector.select ------------------------ *)

\* The characters of a typed line: the decimal digits, a character that
\* str.isdigit accepts and int rejects (the superscript two), and
\* a character that str.isdigit rejects.
DecimalDigits == {"0", "1", "2"}

OtherDigits == {"sup2"}

OtherChars == {"-"}

Chars == DecimalDigits \cup OtherDigits \cup OtherChars

\* str.isdigit: the string is not empty and all its characters are digits.
isdigit(raw_input) ==
  /\ raw_input # << >>
  /\ \A k \in DOMAIN raw_input :
       raw_input[k] \in DecimalDigits \cup OtherDigits

\* int(raw_input) raises ValueError unless every character is a decimal
\* digit ...
IntParses(raw_input) ==
  \A k \in DOMAIN raw_input : raw_input[k] \in DecimalDigits

DigitValue(c) ==
  CASE c = "0" -> 0 [] c = "1" -> 1 [] c = "2" -> 2

\* ... and is the number they write in base ten otherwise.
RECURSIVE int(_)
int(raw_input) ==
  IF raw_input = << >> THEN 0
  ELSE 10 * int(SubSeq(raw_input, 1, Len(raw_input) - 1))
         + DigitValue(raw_input[Len(raw_input)])

\* items[k] of a Python list: k counts from 0, a negative k from the end;
\* IndexError outside -len(items) .. len(items) - 1.
InRange(items, k) == -Len(items) <= k /\ k < Len(items)

getitem(items, k) ==
  IF k >= 0 THEN items[k + 1] ELSE items[Len(items) + k + 1]

\* A printed line.
Line(text, number, item) == [text |-> text, number |-> number, item |-> item]

\* print(message) and the numbered items: `{i+1}) {item}`.
Menu(items) ==
  <<Line("message", 0, None)>>
    \o [k \in 1 .. Len(items) |-> Line("item", k, items[k])]

NumberError == Line("Error: shall input a number!", 0, None)

RangeError(items) ==
  Line("Error: input number shall be between 1 and", Len(items), None)

\* The frame of one activation of select.
SelectFrame == [fn |-> "select"]

\* collector.select(message, items) is called: the menu is printed and the
\* call waits in input().  `call` keeps the line typed last, once one is.
Select(items) ==
  /\ Idle
  /\ call' = [op |-> "select", items |-> items,
              typed |-> FALSE, raw_input |-> << >>]
  /\ stack' = <<SelectFrame>>
  /\ console' = Menu(items)
  /\ ret' = None
  /\ raised' = None
  /\ UNCHANGED <<allocated, kg, vector, fs, walk, probs>>

\* `print(error); return self.select(message, items)`: the interpreter
\* raises RecursionError when the stack is full, the new activation prints
\* the menu and waits in input() otherwise.
Retry(error) ==
  IF Len(stack) >= RecursionLimit
  THEN /\ stack' = << >>
       /\ raised' = "RecursionError"
       /\ console' = <<error>>
  ELSE /\ stack' = Append(stack, SelectFrame)
       /\ raised' = None
       /\ console' = <<error>> \o Menu(call.items)

\* An exception leaves select through all its activations.
Raise(exception) ==
  /\ stack' = << >>
  /\ raised' = exception
  /\ console' = << >>

\* input() returns the line raw_input to the innermost activation, which
\* runs to its next input() or to its end; a return value is handed down
\* through the activations that wait on `return self.select(...)`.
ReadInput(raw_input) ==
  /\ call.op = "select"
  /\ stack # << >>
  /\ call' = [call EXCEPT !.typed = TRUE, !.raw_input = raw_input]
  /\ IF ~isdigit(raw_input)
     THEN Retry(NumberError) /\ UNCHANGED ret
     ELSE IF ~IntParses(raw_input)
     THEN Raise("ValueError") /\ UNCHANGED ret
     ELSE LET i == int(raw_input)
          IN IF i < 0 \/ i > Len(call.items)
             THEN Retry(RangeError(call.items)) /\ UNCHANGED ret
             ELSE IF ~InRange(call.items, i - 1)
             THEN Raise("IndexError") /\ UNCHANGED ret
             ELSE /\ ret' = getitem(call.items, i - 1)
                  /\ stack' = << >>
                  /\ raised' = None
                  /\ console' = << >>
  /\ UNCHANGED <<allocated, kg, vector, fs, walk, probs>>

(* --------------------------- specification ----------------------------- *)

NoCall == [op |-> "init"]

\* A root directory with nothing in it.
EmptyFS == [dirs |-> {RootPath}, files |-> [q \in {} |-> {}]]

\* An embedding under which is_like is equality of the names.
ExactEmbedding == 
  [n \in Names |-> IF n \in {"A", SUBCATEGORY_RELATION} THEN 0 ELSE 18]

Init ==
  /\ allocated = {}
  /\ kg = [g \in Graphs |-> EmptyGraph]
  /\ vector = ExactEmbedding
  /\ call = NoCall
  /\ ret = {}
  /\ raised = None
  /\ stack = << >>
  /\ fs = EmptyFS
  /\ walk = << >>
  /\ probs = << >>
  /\ console = << >>

Next ==
  \/ \E g \in Graphs, h \in EntityNames, r \in RelationNames,
        t \in EntityNames : Add(g, h, r, t)
  \/ \E fact \in kg[1].facts : AddAgain(1, fact)
  \/ \E o \in Graphs : Merge(1, o)
  \/ \E k \in EntityNames : GetFactsByHead(1, k)
  \/ \E k \in RelationNames : GetFactsByRelation(1, k)
  \/ \E k \in EntityNames : GetFactsByTail(1, k)

Spec == Init /\ [][Next]_vars

\* The embeddings of the fuzzy search scenarios: "A" and "is of" lie at
\* angle 0, the other names elsewhere (at 17 degrees a name is like them, at
\* 18 degrees, where the similarity is exactly the threshold, it is not).
Embeddings ==
  {e \in [Names -> Angles] :
     /\ e["A"] = 0 /\ e[SUBCATEGORY_RELATION] = 0
     /\ e["B"] # 0 /\ e["r"] # 0}

\* The search scenarios: one graph, filled by add and searched.
NextSearch ==
  \/ \E h \in EntityNames, r \in RelationNames, t \in EntityNames :
        Add(1, h, r, t)
  \/ \E h \in EntityFilters, r \in RelationFilters,
        t \in EntityFilters : ExactSearch(1, h, r, t)

SpecSearch == Init /\ [][NextSearch]_vars

InitFuzzy ==
  /\ allocated = {}
  /\ kg = [g \in Graphs |-> EmptyGraph]
  /\ vector \in Embeddings
  /\ call = NoCall
  /\ ret = {}
  /\ raised = None
  /\ stack = << >>
  /\ fs = EmptyFS
  /\ walk = << >>
  /\ probs = << >>
  /\ console = << >>

NextFuzzy ==
  \/ \E h \in EntityNames, r \in RelationNames, t \in EntityNames :
        Add(1, h, r, t)
  \/ \E h \in EntityFilters, r \in RelationFilters,
        t \in EntityFilters : FuzzySearch(1, h, r, t)

SpecFuzzy == InitFuzzy /\ [][NextFuzzy]_vars

\* The lookup scenarios: one graph, filled by add and read by the lookups.
NextLookup ==
  \/ \E h \in EntityNames, r \in RelationNames, t \in EntityNames :
        Add(1, h, r, t)
  \/ \E k \in EntityNames : GetFactsByHead(1, k)
  \/ \E k \in RelationNames : GetFactsByRelation(1, k)
  \/ \E k \in EntityNames : GetFactsByTail(1, k)

SpecLookup == Init /\ [][NextLookup]_vars

InitGO == Init

NextGO ==
  \/ \E h \in CategoryNames, r \in RelationNames, t \in CategoryNames :
        Add(1, h, r, t)
  \/ \E c \in CategoryNames : GetObjectsCall(1, c)
  \/ GetObjectsRecur
  \/ GetObjectsSkip
  \/ GetObjectsReturn

SpecGO == InitGO /\ [][NextGO]_vars

\* The parsed contents of the JSON files of the loading scenarios.
HeadNames == {"h", "k"}

Tails == {Str("x"), List(<<"x", "y">>)}

RelationMaps ==
  UNION {[rs -> Tails] : rs \in SUBSET {"r"}}

Contents ==
  UNION {[hs -> RelationMaps] : hs \in SUBSET HeadNames}

FileValues ==
  {[ext |-> ".json", heads |-> c] : c \in Contents}
    \cup {[ext |-> ".txt", heads |-> [h \in {} |-> {}]]}

\* The directory trees of the loading scenarios: the directories root/D and
\* root/D/E may exist, and files named S or T in them.
DirTrees ==
  {{RootPath}, {RootPath, <<"root", "D">>},
   {RootPath, <<"root", "D">>, <<"root", "D", "E">>}}

FilePaths == {<<"root", "S">>, <<"root", "D", "S">>, <<"root", "D", "E", "T">>}

FileSystems ==
  UNION {
    {[dirs |-> ds, files |-> fi] :
       fi \in UNION {[ps -> FileValues] :
                      ps \in SUBSET {q \in FilePaths :
                                       SubSeq(q, 1, Len(q) - 1) \in ds}}}
    : ds \in DirTrees}

InitLoad ==
  /\ allocated = {}
  /\ kg = [g \in Graphs |-> EmptyGraph]
  /\ vector = ExactEmbedding
  /\ call = NoCall
  /\ ret = {}
  /\ raised = None
  /\ stack = << >>
  /\ fs \in FileSystems
  /\ walk = << >>
  /\ probs = << >>
  /\ console = << >>

NextLoad ==
  \/ LoadData
  \/ LoadDir
  \/ LoadFile
  \/ LoadReturn

SpecLoad == InitLoad /\ [][NextLoad]_vars

\* The inputs of the get_anomalies scenarios.
Scores == {-1} \cup (0 .. MaxScore)

ItemScores == UNION {[1 .. n -> Scores] : n \in 0 .. MaxItems}

Thresholds == {[num |-> n, den |-> ThresholdDen] : n \in 0 .. ThresholdDen}

\* get_anomalies is a function of its arguments: a run calls it once.
NextAnomalies ==
  /\ call.op = "init"
  /\ \E item_scores \in ItemScores, prob_threshold \in Thresholds,
        up \in SUBSET {LogScore(x) : x \in 0 .. MaxScore} :
       GetAnomalies(item_scores, prob_threshold, up)

SpecAnomalies == Init /\ [][NextAnomalies]_vars

\* The menus and the typed lines of the select scenarios.
ItemNames == {"a", "b"}

Menus == UNION {[1 .. n -> ItemNames] : n \in 0 .. MaxChoices}

RawInputs == UNION {[1 .. n -> Chars] : n \in 0 .. MaxInputLen}

\* One call of select, and the lines typed at it.
NextSelect ==
  \/ /\ call.op = "init"
     /\ \E items \in Menus : Select(items)
  \/ \E raw_input \in RawInputs : ReadInput(raw_input)

SpecSelect == Init /\ [][NextSelect]_vars

(* ------------------------------- claims -------------------------------- *)

\* The fact f passes the filters that are supplied, by equality.
Matches(f, h, r, t) ==
  /\ h # None => f.head = h
  /\ r # None => f.relation = r
  /\ t # None => f.tail = t

\* The fact f passes the filters that are supplied, by is_like.
IsLike(f, h, r, t) ==
  /\ h # None => is_like(f.head, h)
  /\ r # None => is_like(f.relation, r)
  /\ t # None => is_like(f.tail, t)

\* C1: exact_search with at least one filter returns exactly the facts that
\* match every supplied filter; in particular nothing when one supplied
\* filter matches nothing.
C1_ExactSearchAnd ==
  (call.op = "exact_search"
     /\ <<call.head, call.relation, call.tail>> # <<None, None, None>>)
  => ret = {f \in kg[call.g].facts :
              Matches(f, call.head, call.relation, call.tail)}

\* What the facts and the three indices of a graph hold.
Content(g) ==
  [facts |-> g.facts,
   by_head |-> [k \in EntityNames |-> DefaultGet(g.head_to_facts, k)],
   by_relation |->
     [k \in RelationNames |-> DefaultGet(g.relation_to_facts, k)],
   by_tail |-> [k \in EntityNames |-> DefaultGet(g.tail_to_facts, k)]]

\* C2: adding a fact whose head, relation and tail equal those of a fact of
\* the graph - the same object or another one - leaves the facts and the
\* three indices as they were.
C2_IdempotentInsertion ==
  [][(call'.op = "add"
        /\ \E f \in kg[call'.g].facts : Triple(f) = Triple(call'.fact))
     => Content(kg'[call'.g]) = Content(kg[call'.g])]_vars

\* The three indices of g agree with its facts.
IndexConsistent(g) ==
  /\ \A f \in g.facts :
       /\ f \in DefaultGet(g.head_to_facts, f.head)
       /\ f \in DefaultGet(g.relation_to_facts, f.relation)
       /\ f \in DefaultGet(g.tail_to_facts, f.tail)
  /\ \A k \in DOMAIN g.head_to_facts : \A f \in g.head_to_facts[k] :
       f \in g.facts /\ f.head = k
  /\ \A k \in DOMAIN g.relation_to_facts :
       \A f \in g.relation_to_facts[k] : f \in g.facts /\ f.relation = k
  /\ \A k \in DOMAIN g.tail_to_facts : \A f \in g.tail_to_facts[k] :
       f \in g.facts /\ f.tail = k

\* C3: in every reachable state every fact is in the three indices under its
\* own head, relation and tail, and the indices hold nothing else.
C3_IndexConsistency == \A g \in Graphs : IndexConsistent(kg[g])

\* C3 witness: after adds and a merge, a lookup of a key no fact carries has
\* just put an empty entry into an index of a graph that has facts.
C3_Witness ==
  /\ call.op = "get_facts_by_tail"
  /\ kg[1].tail_to_facts[call.key] = {}
  /\ Cardinality(kg[1].facts) >= 2
  /\ kg[1].facts \cap kg[2].facts # {}

\* The subcategories declared for category c.
Children(g, c) ==
  {f.head : f \in {x \in g.facts :
                     x.relation = SUBCATEGORY_RELATION /\ x.tail = c}}

\* The categories reached from those of `seen` through subcategory facts.
RECURSIVE Closure(_, _)
Closure(g, seen) ==
  LET more == seen \cup UNION {Children(g, c) : c \in seen}
  IN IF more = seen THEN seen ELSE Closure(g, more)

Descendants(g, c) == Closure(g, Children(g, c))

Acyclic(g) == \A c \in CategoryNames : c \notin Descendants(g, c)

\* get_objects has finished, by a return or by an exception.
GetObjectsOver == call.op = "get_objects" /\ stack = << >>

\* C4: on a graph whose subcategory facts have a cycle through the category
\* (A is of B and B is of A, or A is of A), get_objects returns, and
\* returns a non-empty set.
C4_TerminatesOnCycles ==
  (GetObjectsOver /\ call.category \in Descendants(kg[call.g], call.category))
  => (raised = None /\ ret # {})

\* C5: on a graph whose subcategory facts are acyclic, get_objects(C) is {C}
\* when C has no subcategory, and otherwise exactly the descendants of C
\* that have no subcategory.
C5_LeafClosure ==
  (GetObjectsOver /\ Acyclic(kg[call.g]))
  => /\ raised = None
     /\ ret = IF Children(kg[call.g], call.category) = {}
              THEN {call.category}
              ELSE {d \in Descendants(kg[call.g], call.category) :
                      Children(kg[call.g], d) = {}}

\* C5 witness: get_objects returned the one leaf two levels below its category.
C5_Witness ==
  /\ GetObjectsOver /\ Acyclic(kg[call.g]) /\ raised = None
  /\ \E leaf \in CategoryNames, mid \in CategoryNames :
       /\ ret = {leaf}
       /\ mid \in Children(kg[call.g], call.category)
       /\ leaf \in Children(kg[call.g], mid)
       /\ leaf # call.category

\* C6: fuzzy_search returns exactly the facts whose fields are like every
\* supplied filter; when is_like is equality of names, exactly the facts
\* equal to the supplied filters.
C6_FuzzySearch ==
  call.op = "fuzzy_search"
  => /\ ret = {f \in kg[call.g].facts :
                 IsLike(f, call.head, call.relation, call.tail)}
     /\ (\A a \in EntityNames, b \in EntityNames : is_like(a, b) <=> a = b)
        /\ (\A a \in RelationNames, b \in RelationNames :
              is_like(a, b) <=> a = b)
        => ret = {f \in kg[call.g].facts :
                    Matches(f, call.head, call.relation, call.tail)}

\* C6 witness: a fuzzy search with a head and a tail filter returned some
\* facts, one of them with a head that is not the filter, and left others.
C6_Witness ==
  /\ call.op = "fuzzy_search"
  /\ call.head # None /\ call.tail # None
  /\ ret # {} /\ ret # kg[call.g].facts
  /\ \E f \in ret : f.head # call.head

\* load_data has returned.
LoadOver == call.op = "load_data" /\ walk = << >> /\ raised = None

\* The tails a JSON value stands for.
TailSet(v) ==
  IF v.kind = "str" THEN {v.val} ELSE {v.val[i] : i \in DOMAIN v.val}

\* The triples the claim gives for the file at path q.
FileTriples(q) ==
  LET S == q[Len(q)]
      heads == fs.files[q].heads
  IN (IF Len(q) > 2 THEN {<<S, SUBCATEGORY_RELATION, q[Len(q) - 1]>>} ELSE {})
     \cup {<<h, SUBCATEGORY_RELATION, S>> : h \in DOMAIN heads}
     \cup UNION {UNION {{<<h, r, t>> : t \in TailSet(heads[h][r])}
                         : r \in DOMAIN heads[h]} : h \in DOMAIN heads}

\* C7: the triples of the graph load_data returns are, for every file S: S is
\* of its directory unless that is the root, every head is of S, and every
\* head with each relation and each of its tails; nothing else, and all in
\* the one graph.
C7_LoadedTriples ==
  LoadOver
  => {Triple(f) : f \in kg[call.g].facts}
       = UNION {FileTriples(q) : q \in DOMAIN fs.files}

\* C7 witness: a tree with a file under the root and a file two directories
\* down, one of them with a list of two tails, has been loaded.
C7_Witness ==
  /\ LoadOver
  /\ DOMAIN fs.files = {<<"root", "S">>, <<"root", "D", "E", "T">>}
  /\ \E f \in kg[call.g].facts : f.relation = "r" /\ f.tail = "y"
  /\ \E f \in kg[call.g].facts : Triple(f) = <<"T", SUBCATEGORY_RELATION, "E">>
  /\ \E f \in kg[call.g].facts : f.tail = "S"

\* get_anomalies has returned its anomalies.
AnomaliesOver == call.op = "get_anomalies" /\ raised = None

\* score + 0.1 of item i, and the sum of these, in tenths.
Weight(i) == 10 * call.item_scores[i] + 1

TotalWeight == Sum([i \in DOMAIN call.item_scores |-> Weight(i)])

\* C8 as stated: the items returned are exactly those whose
\* (score_i + 0.1) / sum_j (score_j + 0.1) strictly exceeds the threshold.
C8_ExactRatio ==
  AnomaliesOver
  => ret = {i \in DOMAIN call.item_scores :
              Weight(i) * call.prob_threshold.den
                > call.prob_threshold.num * TotalWeight}

\* The items whose computed probability strictly exceeds threshold t.
Exceeding(t) ==
  {i \in DOMAIN probs : probs[i].num * t.den > t.num * probs[i].den}

\* C8 as amended: the items returned are exactly those whose computed
\* probability strictly exceeds the threshold; an item whose
\* (score_i + 0.1) / sum_j (score_j + 0.1) exceeds the threshold by more
\* than the rounding error n / (Scale - n) is returned, one that falls short
\* of it by more is not; a higher threshold returns no further item.
C8_ComputedProbability ==
  AnomaliesOver
  => LET t == call.prob_threshold
         n == Len(call.item_scores)
     IN /\ ret = Exceeding(t)
        /\ \A i \in DOMAIN call.item_scores :
             /\ (Weight(i) * t.den - t.num * TotalWeight) * (Scale - n)
                  > n * TotalWeight * t.den
                => i \in ret
             /\ (t.num * TotalWeight - Weight(i) * t.den) * (Scale - n)
                  > n * TotalWeight * t.den
                => i \notin ret
        /\ \A t2 \in Thresholds : t2.num >= t.num => Exceeding(t2) \subseteq ret

\* C8 witness: an item was returned, and another, whose
\* (score_i + 0.1) / sum_j (score_j + 0.1) is exactly the threshold, was not,
\* its computed probability having been rounded.
C8_Witness ==
  /\ AnomaliesOver
  /\ ret # {}
  /\ \E i \in DOMAIN call.item_scores :
       /\ Weight(i) * call.prob_threshold.den
            = call.prob_threshold.num * TotalWeight
       /\ probs[i].num * TotalWeight # Weight(i) * probs[i].den
       /\ i \notin ret

LookupOps ==
  {"get_facts_by_head", "get_facts_by_relation", "get_facts_by_tail"}

\* The facts of g that carry key k in the field the lookup `op` reads.
Carrying(g, op, k) ==
  {f \in g.facts : CASE op = "get_facts_by_head" -> f.head = k
                      [] op = "get_facts_by_relation" -> f.relation = k
                      [] OTHER -> f.tail = k}

\* The results of every later lookup and search on g.
Answers(g) ==
  [by_head |-> [k \in EntityNames |-> get_facts_by_head(g, k).ret],
   by_relation |->
     [k \in RelationNames |-> get_facts_by_relation(g, k).ret],
   by_tail |-> [k \in EntityNames |-> get_facts_by_tail(g, k).ret],
   exact |-> [q \in EntityFilters \X RelationFilters \X EntityFilters |->
                exact_search(g, q[1], q[2], q[3]).ret],
   fuzzy |-> [q \in EntityFilters \X RelationFilters \X EntityFilters |->
                fuzzy_search(g, q[1], q[2], q[3])]]

\* C9: a lookup with a key that no fact carries returns the empty set, raises
\* nothing, leaves facts, entities and relations alone and changes the
\* result of no later lookup or search.
C9_AbsentKeyLookup ==
  [][(call'.op \in LookupOps
        /\ Carrying(kg[call'.g], call'.op, call'.key) = {})
     => /\ ret' = {}
        /\ raised' = None
        /\ kg'[call'.g].facts = kg[call'.g].facts
        /\ kg'[call'.g].entities = kg[call'.g].entities
        /\ kg'[call'.g].relations = kg[call'.g].relations
        /\ Answers(kg'[call'.g]) = Answers(kg[call'.g])]_vars

\* C9 witness: a lookup by head with a key that is only a tail in the graph
\* returned the empty set and left an entry in the head index.
C9_Witness ==
  /\ call.op = "get_facts_by_head"
  /\ Carrying(kg[call.g], call.op, call.key) = {}
  /\ \E f \in kg[call.g].facts : f.tail = call.key
  /\ call.key \in DOMAIN kg[call.g].head_to_facts
  /\ ret = {}

\* C10: after self += other the facts of self are its former facts and those
\* of other, its indices follow, other is as it was, and the same merge
\* again changes nothing.
C10_MergeUnion ==
  [][call'.op = "iadd"
     => LET self == kg[call'.g]
            other == kg[call'.other]
            merged == kg'[call'.g]
            union == self.facts \cup other.facts
        IN /\ merged.facts = union
           /\ \A k \in EntityNames :
                /\ DefaultGet(merged.head_to_facts, k)
                     = {f \in union : f.head = k}
                /\ DefaultGet(merged.tail_to_facts, k)
                     = {f \in union : f.tail = k}
           /\ \A k \in RelationNames :
                DefaultGet(merged.relation_to_facts, k)
                  = {f \in union : f.relation = k}
           /\ kg'[call'.other].facts = other.facts
           /\ kg'[call'.other].entities = other.entities
           /\ kg'[call'.other].relations = other.relations
           /\ Content(kg'[call'.other]) = Content(other)
           /\ (call.op = "iadd" /\ call = call') => kg' = kg]_vars

\* C10 witness: a merge gave self, which had facts of its own, the facts
\* of another graph.
C10_Witness ==
  /\ call.op = "iadd" /\ call.other # call.g
  /\ Cardinality(kg[call.other].facts) >= 1
  /\ kg[call.other].facts \subseteq kg[call.g].facts
  /\ kg[call.g].facts # kg[call.other].facts

\* C11: get_anomalies fails with an assertion error and returns nothing
\* whenever some score of the mapping is negative, wherever that item stands
\* in the mapping and whatever the other scores and the threshold are.
C11_NegativeScoreAsserts ==
  (/\ call.op = "get_anomalies"
   /\ \E i \in DOMAIN call.item_scores : call.item_scores[i] < 0)
  => /\ raised = "AssertionError"
     /\ ret = {}
     /\ probs = << >>

\* C11 witness: the call failed on a mapping whose first score is positive
\* and whose last score is the negative one.
C11_Witness ==
  /\ call.op = "get_anomalies"
  /\ Len(call.item_scores) >= 2
  /\ call.item_scores[1] > 0
  /\ call.item_scores[Len(call.item_scores)] < 0
  /\ call.prob_threshold.num > 0
  /\ raised = "AssertionError"

\* The heads and tails, and the relations, of the facts of graph g.
HeadsAndTails(g) == {f.head : f \in g.facts} \cup {f.tail : f \in g.facts}

RelationsOf(g) == {f.relation : f \in g.facts}

\* C12: in every state reached by add and merge calls, the entities of a
\* graph are exactly the heads and tails of its facts and its relations are
\* exactly the relations of its facts.
C12_EntitiesAndRelations ==
  \A g \in Graphs :
    /\ kg[g].entities = HeadsAndTails(kg[g])
    /\ kg[g].relations = RelationsOf(kg[g])

\* C12 witness: a merge has brought a fact of the second graph into the
\* first, which holds two facts over two entities and two relations, the
\* tail of one of them being the head of no fact.
C12_Witness ==
  /\ call.op = "iadd"
  /\ call.other = 2
  /\ kg[2].facts # {}
  /\ kg[2].facts \subseteq kg[1].facts
  /\ kg[1].facts # kg[2].facts
  /\ kg[1].entities = EntityNames
  /\ kg[1].relations = RelationNames
  /\ \E f \in kg[1].facts : \A f2 \in kg[1].facts : f2.head # f.tail

\* A typed line that writes a number, and the number it writes.
IsNumber(raw_input) ==
  /\ raw_input # << >>
  /\ \A k \in DOMAIN raw_input : raw_input[k] \in DecimalDigits

\* select has printed an error and the menu again and waits for input.
PromptsAgain ==
  /\ stack # << >>
  /\ raised = None
  /\ console # << >>
  /\ console[1] \in {NumberError, RangeError(call.items)}
  /\ SubSeq(console, 2, Len(console)) = Menu(call.items)

\* C13: select returns an item only for a typed line that is a number n
\* with 1 <= n <= len(items), and then returns items[n-1], the item shown
\* with that number; after any other line (not a number, 0, or greater than
\* len(items)) it has printed an error and prompts again without returning.
C13_SelectByNumber ==
  (call.op = "select" /\ call.typed)
  => LET n == int(call.raw_input)
     IN IF IsNumber(call.raw_input) /\ 1 <= n /\ n <= Len(call.items)
        THEN /\ stack = << >>
             /\ raised = None
             /\ ret = call.items[n]
        ELSE /\ PromptsAgain
             /\ ret = None

====
